---- MODULE Spec2Model ----
(***************************************************************************)
(* The discrete-movement controller of src/index.js (DiscreteControl) as a *)
(* state machine: the action queue, the current-action slot, the bounds    *)
(* box, the module-wide drop counter and the controlled objects the host   *)
(* owns (position, yaw, ground contact, velocity, acceleration, gravity).  *)
(*                                                                         *)
(* Numbers.  Lengths are integers counting eighths of a world unit, so the *)
(* default arc height .5 is 4 and "forward: 2" is 16.  Angles are integers *)
(* counting quarter turns, so translate-relative moves along a world axis. *)
(* Times are milliseconds.  The inputs (Commands, Dts) are chosen so that  *)
(* every quotient the program forms is a whole number of these units; the  *)
(* arithmetic is that of the reals, floating-point rounding is not         *)
(* modelled.                                                               *)
(*                                                                         *)
(* The host's object.  target.avatar.position and target.yaw.position are   *)
(* one point and target.rotation.y is the avatar's yaw, so that             *)
(* avatar.translateZ moves the point along the avatar's turned z axis.     *)
(* gravity counts how many times the gravity force is applied to it        *)
(* (subjectTo adds one, removeForce takes one away).                       *)
(*                                                                         *)
(* The output channel.  buffer and paused are the stream's fields; a call   *)
(* of resume, pause or emitUpdate is one step, and the events it emits to   *)
(* its listeners are kept in emitted.  A 'data' listener may call pause()   *)
(* while drain() runs: the item at which it does is an input of resume.     *)
(*                                                                         *)
(* Specifications.  Spec is the scheduler with its bounds and the host's   *)
(* physics; SpecChannel adds the output channel; SpecRebind lets the host  *)
(* rebind the controller at any time; SpecInputs gives it conflicting      *)
(* commands, durations of 0 and steps of 0; SpecLive is the scheduler of a *)
(* grounded target under a host that goes on calling tick.                 *)
(*                                                                         *)
(* JavaScript values.  A field of a command or a side of the bounds box is *)
(* a record [k, v]: k is the kind ("number", "undefined", "null",          *)
(* "false") and v the number it reads as in arithmetic.  A coordinate of a *)
(* position is kept as the number it reads as: a coordinate that was       *)
(* assigned null reads as 0 in every sum and comparison the program makes. *)
(***************************************************************************)
EXTENDS Integers, Sequences, FiniteSets

VARIABLES
  _target,            \* this._target: NoTarget or the name of a host object
  _action,            \* this._action: NULL or the normalized current action
  _action_queue,      \* this._action_queue: sequence of commands
  bounds,             \* this.bounds: six sides, each a JavaScript value
  numdroppedactions,  \* the module-wide drop counter
  objs,               \* the host's objects, by name
  call,               \* history: what the last call was and did
  written,            \* history: number of write calls made
  accepted,           \* history: ids of the commands write has enqueued since
                      \* the last reset, in order
  started,            \* history: ids of the commands that became current since
                      \* the last reset, in order
  run,                \* history: the ticks given to the action that is current
                      \* or was completed by the last call
  burst,              \* history: the writes and drops counted when the queue was
                      \* last empty with no tick since, or NULL
  buffer,             \* this.buffer: the items waiting for delivery
  paused,             \* this.paused
  emitted             \* history: the events the last call emitted, in order

vars == <<_target, _action, _action_queue, bounds, numdroppedactions, objs,
          call, written, accepted, started, run, burst, buffer, paused, emitted>>

ctl == <<_target, _action, _action_queue, bounds, numdroppedactions, objs>>

-----------------------------------------------------------------------------
(* Bounds of the model *)

\* opts.maxActions given to the constructor
MaxActions == 1

\* number of write/end calls a behaviour makes
MaxWrites == 3

\* number of items the host lets wait in the output buffer
MaxBuffer == 2

\* number of ticks the host gives one action when it passes dt = 0
MaxSteps == 4

-----------------------------------------------------------------------------
(* JavaScript values *)

NULL == [k |-> "null"]

\* null where a host object is expected
NoTarget == "null"

Num(n) == [k |-> "number", v |-> n]
UNDEF == [k |-> "undefined", v |-> 0]
JSNull == [k |-> "null", v |-> 0]
JSFalse == [k |-> "false", v |-> 0]

\* the truth value of a field in "if (x)" and "x || y"
Truthy(x) == x.k \in {"object", "array"} \/ (x.k = "number" /\ x.v # 0)

\* x || y
Or(x, y) == IF Truthy(x) THEN x ELSE y

\* n < b for a number n and a bounds side b: null reads as 0, and every
\* comparison with undefined is false
Lt(n, b) == b.k # "undefined" /\ n < b.v

\* n > b, likewise
Gt(n, b) == b.k # "undefined" /\ n > b.v

Vec(x, y, z) == [x |-> x, y |-> y, z |-> z]

\* var x = e; F(x): F of the value of e, e being evaluated once
Bound(e, F(_)) == CHOOSE y \in {F(x) : x \in {e}} : TRUE

-----------------------------------------------------------------------------
(* The inputs *)

\* the default arc height .5, in eighths of a world unit
DefaultHeight == 4

\* the default duration, in milliseconds
DefaultDuration == 1000

\* one world unit
Unit == 2 * DefaultHeight

\* the names of the host's objects
Objects == {"a", "b"}

\* the time steps the host drives tick with
Dts == {500, 1000}

NoMoveto == [k |-> "undefined", x |-> 0, z |-> 0]

\* {} : a command with no field set
Blank ==
  [forward |-> UNDEF, backward |-> UNDEF, left |-> UNDEF, right |-> UNDEF,
   translateX |-> UNDEF, translateY |-> UNDEF, translateZ |-> UNDEF,
   moveto |-> NoMoveto, rotate |-> UNDEF, duration |-> UNDEF, height |-> UNDEF,
   id |-> 0]

\* {forward: 2, duration: 1000}
CmdForward == [Blank EXCEPT !.forward = Num(2 * Unit), !.duration = Num(1000)]

\* {translateX: 7}
CmdTranslateX == [Blank EXCEPT !.translateX = Num(7 * Unit)]

\* {rotate: 3*pi/2, duration: 1500, height: 0}
CmdRotate ==
  [Blank EXCEPT !.rotate = Num(3), !.duration = Num(1500), !.height = Num(0)]

Commands == {CmdForward, CmdTranslateX, CmdRotate}

\* {translateZ: 1, forward: 2, duration: 1000}
CmdZForward ==
  [Blank EXCEPT !.translateZ = Num(Unit), !.forward = Num(2 * Unit),
                !.duration = Num(1000)]

\* {translateX: 2, left: 1, duration: 1000}
CmdXLeft ==
  [Blank EXCEPT !.translateX = Num(2 * Unit), !.left = Num(Unit),
                !.duration = Num(1000)]

\* {moveto: {x: 4, z: -4}, backward: 1, duration: 0}
CmdMovetoBackward ==
  [Blank EXCEPT !.moveto = [k |-> "object", x |-> 4 * Unit, z |-> -4 * Unit],
                !.backward = Num(Unit), !.duration = Num(0)]

\* {left: 2, duration: 0, height: 1}
CmdLeftZero ==
  [Blank EXCEPT !.left = Num(2 * Unit), !.duration = Num(0),
                !.height = Num(Unit)]

\* commands whose intents conflict or whose duration is 0 or not set
Conflicts == {CmdZForward, CmdXLeft, CmdMovetoBackward, CmdLeftZero, CmdTranslateX}

Sides == {"minx", "maxx", "miny", "maxy", "minz", "maxz"}

\* the bounds the constructor installs when opts.movementBounds is not given
DefaultBounds == [s \in Sides |-> JSNull]

\* {} : no side present
NoBounds == [s \in Sides |-> UNDEF]

\* {maxx: 5}
MaxXBounds == [NoBounds EXCEPT !["maxx"] = Num(5 * Unit)]

BoundsChoices == {DefaultBounds, NoBounds, MaxXBounds}

\* the host's objects when the controller is constructed
InitObjs ==
  [o \in Objects |->
     [position |-> IF o = "a" THEN Vec(0, 0, 0) ELSE Vec(7 * Unit, 0, -Unit),
      rotation_y |-> 0,
      resting_y |-> (o = "a"),
      velocity |-> 0,
      acceleration |-> 0,
      gravity |-> 1]]

-----------------------------------------------------------------------------
(* The host's object: avatar.translateZ, avatar.translateX *)

\* sine and cosine of a whole number of quarter turns
Sin(q) == CASE q % 4 = 0 -> 0 [] q % 4 = 1 -> 1 [] q % 4 = 2 -> 0 [] OTHER -> -1
Cos(q) == CASE q % 4 = 0 -> 1 [] q % 4 = 1 -> 0 [] q % 4 = 2 -> -1 [] OTHER -> 0

\* avatar.translateZ(d): move d along the avatar's own z axis
translateZ(pos, rot, d) ==
  [pos EXCEPT !.x = @ + Sin(rot) * d, !.z = @ + Cos(rot) * d]

\* avatar.translateX(d): move d along the avatar's own x axis
translateX(pos, rot, d) ==
  [pos EXCEPT !.x = @ + Cos(rot) * d, !.z = @ - Sin(rot) * d]

-----------------------------------------------------------------------------
(* The controller *)

\* setMovementBounds(movementBounds): the argument, or {} when it is not given
setMovementBounds(movementBounds) ==
  /\ bounds' = Or(movementBounds, [k |-> "object", v |-> NoBounds]).v
  /\ UNCHANGED <<_target, _action, _action_queue, numdroppedactions, objs>>

\* whether the command asks for a relative movement
relative(a) ==
  Truthy(a.forward) \/ Truthy(a.backward) \/ Truthy(a.left) \/ Truthy(a.right)

\* line 209: rotation together with a movement clears the rotation
rotateOrMove(a) ==
  IF /\ Truthy(a.rotate)
     /\ \/ relative(a)
        \/ Truthy(a.translateX) \/ Truthy(a.translateY) \/ Truthy(a.moveto)
  THEN [a EXCEPT !.rotate = JSFalse]
  ELSE a

\* line 213: forward together with backward clears backward
forwardOrBackward(a) ==
  IF Truthy(a.forward) /\ Truthy(a.backward)
  THEN [a EXCEPT !.backward = JSFalse]
  ELSE a

\* line 217: left together with right clears right
leftOrRight(a) ==
  IF Truthy(a.left) /\ Truthy(a.right)
  THEN [a EXCEPT !.right = JSFalse]
  ELSE a

\* line 221: an absolute movement clears the relative ones
absoluteOrRelative(a) ==
  IF /\ Truthy(a.translateX) \/ Truthy(a.translateY) \/ Truthy(a.moveto)
     /\ relative(a)
  THEN [a EXCEPT !.forward = JSFalse, !.backward = JSFalse,
                 !.left = JSFalse, !.right = JSFalse]
  ELSE a

\* line 225: moveto clears translateX and translateY
movetoOrTranslate(a) ==
  IF (Truthy(a.translateX) \/ Truthy(a.translateY)) /\ Truthy(a.moveto)
  THEN [a EXCEPT !.translateX = JSFalse, !.translateY = JSFalse]
  ELSE a

\* validateAction(action): disallow conflicting intents, in the code's order
validateAction(action) ==
  movetoOrTranslate(absoluteOrRelative(leftOrRight(forwardOrBackward(
    rotateOrMove(action)))))

\* as getEndPosition, from the position after the relative translations
endAbsolute(p, action) ==
  [p EXCEPT !.z = IF Truthy(action.translateZ) THEN @ + action.translateZ.v ELSE @,
            !.x = IF Truthy(action.translateX) THEN @ + action.translateX.v ELSE @]

\* as getEndPosition, from the position after the forward translation
endLeft(p, rot, action) ==
  endAbsolute(IF Truthy(action.left) THEN translateX(p, rot, -action.left.v) ELSE p,
              action)

\* getEndPosition(avatar, action): the translations applied once to the
\* avatar, read back, and the avatar's position restored
getEndPosition(pos, rot, action) ==
  endLeft(IF Truthy(action.forward) THEN translateZ(pos, rot, -action.forward.v)
          ELSE pos,
          rot, action)

\* one axis of setPosition: the coordinate v of the target, the coordinate p
\* of the position tested, the sides lo and hi.  aliased says that position is
\* the target's own position object (the call of line 125), so that the second
\* test reads what the first wrote.
clampAxis(v, p, lo, hi, aliased) ==
  IF Lt(p, lo)
  THEN IF Gt(IF aliased THEN lo.v ELSE p, hi) THEN hi.v ELSE lo.v
  ELSE IF Gt(p, hi) THEN hi.v ELSE v

\* the sides of one axis whose assignment in setPosition ran
clampedAxis(p, lo, hi, aliased, loName, hiName) ==
  (IF Lt(p, lo) THEN {loName} ELSE {})
    \cup (IF Gt(IF aliased /\ Lt(p, lo) THEN lo.v ELSE p, hi) THEN {hiName} ELSE {})

\* setPosition(target, position): tpos is target.yaw.position.  Returns the
\* target's position, the sides whose assignment ran, and its two arguments.
setPosition(b, tpos, position, aliased) ==
  [before |-> tpos,
   tested |-> position,
   pos |-> Vec(clampAxis(tpos.x, position.x, b.minx, b.maxx, aliased),
               clampAxis(tpos.y, position.y, b.miny, b.maxy, aliased),
               clampAxis(tpos.z, position.z, b.minz, b.maxz, aliased)),
   clamped |->
     clampedAxis(position.x, b.minx, b.maxx, aliased, "minx", "maxx")
       \cup clampedAxis(position.y, b.miny, b.maxy, aliased, "miny", "maxy")
       \cup clampedAxis(position.z, b.minz, b.maxz, aliased, "minz", "maxz")]

\* lines 194-197: turn off gravity until the action is complete
removeGravity(tobj) ==
  [tobj EXCEPT !.gravity = @ - 1, !.velocity = 0, !.acceleration = 0]

\* teardownAction without the call of subjectTo
teardownActionNoGravity(tobj) ==
  [tobj EXCEPT !.velocity = 0, !.acceleration = 0]

\* teardownAction(target, action): resume gravity
teardownAction(tobj) ==
  [tobj EXCEPT !.velocity = 0, !.acceleration = 0, !.gravity = @ + 1]

\* setupStarts without the test of this._action
setupStartsWhileBusy(tobj) ==
  /\ Len(_action_queue) # 0
  /\ tobj.resting_y

\* setupStarts without the test of resting.y
setupStartsAirborne(tobj) ==
  ~(_action # NULL \/ Len(_action_queue) = 0)

\* setupStarts with the test of resting.y inverted
setupStartsFalling(tobj) ==
  /\ ~(_action # NULL \/ Len(_action_queue) = 0)
  /\ ~tobj.resting_y

\* lines 141-148: whether setupAction goes on to start the head of the queue
setupStarts(tobj) ==
  /\ ~(_action # NULL \/ Len(_action_queue) = 0)
  /\ tobj.resting_y

\* lines 157-164: moveto becomes translateZ and translateX
movetoToTranslate(a, tobj) ==
  IF Truthy(a.moveto)
  THEN [a EXCEPT !.translateZ = Num(a.moveto.z - tobj.position.z),
                 !.translateX = Num(a.moveto.x - tobj.position.x)]
  ELSE a

\* lines 167-170: backward becomes -forward
backwardToForward(a) ==
  IF Truthy(a.backward)
  THEN [a EXCEPT !.forward = Num(-a.backward.v), !.backward = JSFalse]
  ELSE a

\* lines 173-176: right becomes -left
rightToLeft(a) ==
  IF Truthy(a.right)
  THEN [a EXCEPT !.left = Num(-a.right.v), !.right = JSFalse]
  ELSE a

\* defaults with the duration defaulted only when it is undefined
defaultsKeepZero(a) ==
  [a EXCEPT !.duration = IF a.duration.k = "undefined" THEN Num(DefaultDuration)
                         ELSE a.duration,
            !.height = IF a.height.k = "undefined" THEN Num(DefaultHeight)
                       ELSE a.height,
            !.rotate = Or(a.rotate, Num(0))]

\* lines 179-181: default action values
defaults(a) ==
  [a EXCEPT !.duration = Or(a.duration, Num(DefaultDuration)),
            !.height = IF a.height.k = "undefined" THEN Num(DefaultHeight)
                       ELSE a.height,
            !.rotate = Or(a.rotate, Num(0))]

\* lines 182-192: the resolved magnitudes and the precomputed start and end
precompute(a, tobj) ==
  [k |-> "action",
   id |-> a.id,
   forward |-> a.forward, backward |-> a.backward,
   left |-> a.left, right |-> a.right,
   translateX |-> a.translateX, translateY |-> a.translateY,
   translateZ |-> a.translateZ, moveto |-> a.moveto,
   rotate |-> a.rotate, duration |-> a.duration, height |-> a.height,
   _moverel_x |-> Or(a.left, Num(0)),
   _moverel_z |-> Or(a.forward, Num(0)),
   _moveabs_x |-> Or(a.translateX, Num(0)),
   _moveabs_z |-> Or(a.translateZ, Num(0)),
   _startpos |-> tobj.position,
   _endpos |-> getEndPosition(tobj.position, tobj.rotation_y, a),
   _startrotate |-> tobj.rotation_y,
   _endrotate |-> tobj.rotation_y + a.rotate.v,
   _elapsed |-> 0]

\* lines 150-192: the head of the queue, normalized against the target
normalize(cmd, tobj) ==
  Bound(validateAction(cmd),
        LAMBDA v :
          Bound(defaults(rightToLeft(backwardToForward(
                  movetoToTranslate(v, tobj)))),
                LAMBDA a : precompute(a, tobj)))

\* setupAction with pop() for shift()
setupActionNewest(tobj) ==
  IF setupStarts(tobj)
  THEN [action |-> normalize(_action_queue[Len(_action_queue)], tobj),
        queue |-> SubSeq(_action_queue, 1, Len(_action_queue) - 1),
        obj |-> removeGravity(tobj)]
  ELSE [action |-> _action, queue |-> _action_queue, obj |-> tobj]

\* setupAction(): the current action, the queue and the target after the call
setupAction(tobj) ==
  IF setupStarts(tobj)
  THEN [action |-> normalize(Head(_action_queue), tobj),
        queue |-> Tail(_action_queue),
        obj |-> removeGravity(tobj)]
  ELSE [action |-> _action, queue |-> _action_queue, obj |-> tobj]

\* (magnitude / duration) * dt
perTick(magnitude, duration, dt) == (magnitude * dt) \div duration

\* arcY with the offset of the start height left out
arcYFromZero(height, duration, elapsed, startY) ==
  height - (height * (2 * elapsed - duration) * (2 * elapsed - duration))
             \div (duration * duration)

\* lines 121-122: the height of the arc at elapsed
arcY(height, duration, elapsed, startY) ==
  height - (height * (2 * elapsed - duration) * (2 * elapsed - duration))
             \div (duration * duration) + startY

\* the result of setPosition put into the target, with the yaw
placed(tobj, sp, rot) ==
  [obj |-> [tobj EXCEPT !.position = sp.pos, !.rotation_y = rot],
   sp |-> sp]

\* teardownAction applied to a placed target
tornDown(r) ==
  [action |-> NULL, obj |-> teardownAction(r.obj), sp |-> r.sp]

\* lines 72-80: the action is complete
completeAction(action, tobj) ==
  tornDown(placed(tobj,
                  setPosition(bounds, tobj.position, action._endpos, FALSE),
                  action._endrotate))

\* lines 83-85: relative z translation
moveForward(action, tobj, dt) ==
  IF Truthy(action.forward)
  THEN translateZ(tobj.position, tobj.rotation_y,
                  -perTick(action._moverel_z.v, action.duration.v, dt))
  ELSE tobj.position

\* lines 88-90: relative x translation
moveLeft(p, action, tobj, dt) ==
  IF Truthy(action.left)
  THEN translateX(p, tobj.rotation_y,
                  -perTick(action._moverel_x.v, action.duration.v, dt))
  ELSE p

\* lines 93-100 and 122: absolute z and x translation, and the y of the arc
moveAbsolute(p, action, dt) ==
  [p EXCEPT
     !.z = IF Truthy(action.translateZ)
           THEN @ + perTick(action.translateZ.v, action.duration.v, dt) ELSE @,
     !.x = IF Truthy(action.translateX)
           THEN @ + perTick(action.translateX.v, action.duration.v, dt) ELSE @,
     !.y = arcY(action.height.v, action.duration.v, action._elapsed,
                action._startpos.y)]

\* lines 103-105: rotation
rotated(action, tobj, dt) ==
  IF Truthy(action.rotate)
  THEN tobj.rotation_y + perTick(action.rotate.v, action.duration.v, dt)
  ELSE tobj.rotation_y

\* line 125: enforce bounds on the target's own position
enforced(p, action, tobj, dt) ==
  placed(tobj, setPosition(bounds, p, p, TRUE), rotated(action, tobj, dt))

\* the action kept current
running(action, r) ==
  [action |-> action, obj |-> r.obj, sp |-> r.sp]

\* lines 82-125: one frame of the running action
moveAction(action, tobj, dt) ==
  running(action,
          enforced(moveAbsolute(moveLeft(moveForward(action, tobj, dt),
                                         action, tobj, dt),
                                action, dt),
                   action, tobj, dt))

\* advance with > for >= in the test of line 73
advanceLate(action, tobj, dt) ==
  IF action._elapsed > action.duration.v
  THEN completeAction(action, tobj)
  ELSE moveAction(action, tobj, dt)

\* lines 55-127, for the action with its elapsed time advanced
advance(action, tobj, dt) ==
  IF action._elapsed >= action.duration.v
  THEN completeAction(action, tobj)
  ELSE moveAction(action, tobj, dt)

\* the current-action slot, the target and what setPosition did, with the queue
withQueue(r, queue) ==
  [action |-> r.action, queue |-> queue, obj |-> r.obj, sp |-> r.sp]

\* a completing tick that goes on to start the head of the queue
chained(r) ==
  IF r.action = NULL /\ r.queue # <<>>
  THEN [r EXCEPT !.action = normalize(Head(r.queue), r.obj),
                 !.queue = Tail(r.queue),
                 !.obj = removeGravity(r.obj)]
  ELSE r

\* afterSetup with the next command started by the tick that completes one
afterSetupChained(s, dt) ==
  IF s.action = NULL
  THEN [action |-> NULL, queue |-> s.queue, obj |-> s.obj, sp |-> NULL]
  ELSE chained(withQueue(advance([s.action EXCEPT !._elapsed = @ + dt],
                                 s.obj, dt),
                         s.queue))

\* lines 51-127, s being what setupAction left
afterSetup(s, dt) ==
  IF s.action = NULL
  THEN [action |-> NULL, queue |-> s.queue, obj |-> s.obj, sp |-> NULL]
  ELSE withQueue(advance([s.action EXCEPT !._elapsed = @ + dt], s.obj, dt),
                 s.queue)

\* tick(dt) with a target bound: what it leaves in the current-action slot,
\* the queue and the target, and what its call of setPosition did
tickBound(dt) ==
  Bound(setupAction(objs[_target]), LAMBDA s : afterSetup(s, dt))

\* the assignments of tick(dt)
tickAssigns(r) ==
  /\ _action' = r.action
  /\ _action_queue' = r.queue
  /\ objs' = [objs EXCEPT ![_target] = r.obj]
  /\ UNCHANGED <<_target, bounds, numdroppedactions>>

\* tick(dt) with the test of this._target made after the dequeue
tickShiftsUnbound(dt) ==
  IF _target = NoTarget
  THEN /\ _action_queue' = IF _action_queue = <<>> THEN <<>>
                           ELSE Tail(_action_queue)
       /\ UNCHANGED <<_target, _action, bounds, numdroppedactions, objs>>
  ELSE \E r \in {tickBound(dt)} : tickAssigns(r)

\* tick(dt)
tick(dt) ==
  IF _target = NoTarget
  THEN UNCHANGED ctl
  ELSE \E r \in {tickBound(dt)} : tickAssigns(r)

\* reset ending the current action as a completing tick does
resetSnaps ==
  /\ _action_queue' = <<>>
  /\ IF _action # NULL
     THEN /\ objs' = [objs EXCEPT ![_target] = completeAction(_action, @).obj]
          /\ _action' = NULL
     ELSE UNCHANGED <<objs, _action>>
  /\ UNCHANGED <<_target, bounds, numdroppedactions>>

\* reset(): cancel the current action and all future actions
reset ==
  /\ _action_queue' = <<>>
  /\ IF _action # NULL
     THEN /\ objs' = [objs EXCEPT ![_target] = teardownAction(@)]
          /\ _action' = NULL
     ELSE UNCHANGED <<objs, _action>>
  /\ UNCHANGED <<_target, bounds, numdroppedactions>>

\* writeDrops with >= for >
writeDropsAtLimit == Len(_action_queue) >= MaxActions

\* lines 275-281: write drops the command
writeDrops == Len(_action_queue) > MaxActions

\* write(action)
write(action) ==
  IF writeDrops
  THEN /\ numdroppedactions' = numdroppedactions + 1
       /\ UNCHANGED <<_target, _action, _action_queue, bounds, objs>>
  ELSE /\ _action_queue' = Append(_action_queue, action)
       /\ UNCHANGED <<_target, _action, bounds, numdroppedactions, objs>>

\* end(action): handle any final action in the stream
end(action) ==
  IF action # UNDEF THEN write(action) ELSE UNCHANGED ctl

\* target(target): bind the object when one is given
target(o) ==
  /\ _target' = IF o \notin {"null", "undefined"} THEN o ELSE _target
  /\ UNCHANGED <<_action, _action_queue, bounds, numdroppedactions, objs>>

\* the events of the output channel
DataEvent(data) == [e |-> "data", v |-> data.v]
EndEvent == [e |-> "end", v |-> 0]
PauseEvent == [e |-> "pause", v |-> 0]
DrainEvent == [e |-> "drain", v |-> 0]

\* the loop of drain() with the test of this.paused left out
RECURSIVE drainLoopDeaf(_, _, _, _)
drainLoopDeaf(buf, p, k, out) ==
  IF buf = <<>>
  THEN [buffer |-> buf, paused |-> p, emitted |-> out]
  ELSE IF Head(buf) = JSNull
  THEN [buffer |-> Tail(buf), paused |-> p, emitted |-> Append(out, EndEvent)]
  ELSE IF k = 1
  THEN drainLoopDeaf(Tail(buf), TRUE, 0,
                     out \o <<DataEvent(Head(buf)), PauseEvent>>)
  ELSE drainLoopDeaf(Tail(buf), p, IF k = 0 THEN 0 ELSE k - 1,
                     Append(out, DataEvent(Head(buf))))

\* lines 341-347: the loop of drain(), from the buffer buf and the flag p, out
\* being the events emitted so far.  The 'data' listener calls pause() when
\* it is handed the k-th item from here (k = 0: it never does); pause() then
\* finds the flag clear, sets it and emits 'pause'.
RECURSIVE drainLoop(_, _, _, _)
drainLoop(buf, p, k, out) ==
  IF buf = <<>> \/ p
  THEN [buffer |-> buf, paused |-> p, emitted |-> out]
  ELSE IF Head(buf) = JSNull
  THEN [buffer |-> Tail(buf), paused |-> p, emitted |-> Append(out, EndEvent)]
  ELSE IF k = 1
  THEN drainLoop(Tail(buf), TRUE, 0, out \o <<DataEvent(Head(buf)), PauseEvent>>)
  ELSE drainLoop(Tail(buf), p, IF k = 0 THEN 0 ELSE k - 1,
                 Append(out, DataEvent(Head(buf))))

\* drain(): what it leaves of the buffer and the flag, and what it emitted
drain(buf, p, k) == drainLoop(buf, p, k, <<>>)

\* resume() emitting 'drain' whatever the flag
resumedAlways(r) == [r EXCEPT !.emitted = Append(@, DrainEvent)]

\* lines 354-356: 'drain' is emitted unless the channel is paused
resumed(r) ==
  [r EXCEPT !.emitted = IF r.paused THEN @ ELSE Append(@, DrainEvent)]

\* resume(), the listener pausing at the k-th item
resume(k) == resumed(drain(buffer, FALSE, k))

\* pause() setting the flag without the notification
pauseSilent ==
  [buffer |-> buffer, paused |-> TRUE, emitted |-> <<>>]

\* pause()
pause ==
  [buffer |-> buffer, paused |-> TRUE,
   emitted |-> IF paused THEN <<>> ELSE <<PauseEvent>>]

\* the assignments of a call on the output channel, r being what it leaves
channelAssigns(r) ==
  /\ buffer' = r.buffer
  /\ paused' = r.paused
  /\ emitted' = r.emitted

\* outQueue(data): line 369 calls push on this.outQueue, which is this very
\* method; a function has no push, so the call of undefined throws a
\* TypeError before anything is stored and before drain() is called
outQueue(data) ==
  [ret |-> "TypeError", buffer |-> buffer, paused |-> paused, emitted |-> <<>>]

\* the object emitUpdate builds: the accumulators createWriteRotationStream
\* sets (undefined when it was never called) and the flags of the action
snapshot(action) ==
  [k |-> "object", v |-> action.id,
   forward |-> action.forward, backward |-> action.backward,
   left |-> action.left, right |-> action.right]

\* emitUpdate(): reading a property of this._action throws when it is null
emitUpdate ==
  IF _action = NULL
  THEN [ret |-> "TypeError", buffer |-> buffer, paused |-> paused,
        emitted |-> <<>>]
  ELSE outQueue(snapshot(_action))

-----------------------------------------------------------------------------
(* History.  A command is a JavaScript object; its id is its identity, the  *)
(* number of the write call that passed it.                                 *)

ids(q) == [i \in 1..Len(q) |-> q[i].id]

\* what is remembered of a call that is not a tick and not a write
\* name: the call; ret: what it returned; sp: what its call of setPosition
\* did, or NULL; started: setupAction started an action; ended:
\* teardownAction ran; ran: the call returned with an action current
NoCall == [name |-> "other", ret |-> "undefined", sp |-> NULL,
           started |-> FALSE, ended |-> FALSE, ran |-> FALSE]

NoRun == [k |-> "none"]

\* a call that leaves the output channel alone and emits nothing
noEvents ==
  /\ emitted' = <<>>
  /\ UNCHANGED <<buffer, paused>>

Note(name, ret) ==
  call' = [NoCall EXCEPT !.name = name, !.ret = ret]

\* the run of the current action after a call that is not a tick: a run that
\* is over is forgotten
keepRun == IF _action # NULL THEN run ELSE NoRun

\* the queued command with the given id, as write stored it
asWritten(id) ==
  _action_queue[CHOOSE i \in 1..Len(_action_queue) : _action_queue[i].id = id]

\* the run of the action that tick(dt) starts or goes on with, r being what
\* the tick leaves and s what its call of setupAction left
runAfter(dt, r, s) ==
  IF _action = NULL
  THEN [k |-> "run", dts |-> <<dt>>,
        startpos |-> objs[_target].position,
        startrotate |-> objs[_target].rotation_y,
        rebounded |-> FALSE,
        action |-> s.action,
        command |-> asWritten(s.action.id),
        done |-> (r.action = NULL)]
  ELSE [run EXCEPT !.dts = Append(@, dt), !.done = (r.action = NULL)]

\* the history of tick(dt) with a target bound
tickHistory(dt, r, s, starts, acts) ==
  /\ call' = [name |-> "tick", ret |-> "undefined",
              sp |-> r.sp,
              started |-> starts,
              ended |-> acts /\ r.action = NULL,
              ran |-> r.action # NULL]
  /\ started' = IF starts
                THEN Append(started, s.action.id)
                ELSE started
  /\ run' = IF acts THEN runAfter(dt, r, s) ELSE NoRun

-----------------------------------------------------------------------------
(* The calls the host makes *)

Init ==
  /\ _target = NoTarget
  /\ _action = NULL
  /\ _action_queue = <<>>
  /\ bounds \in BoundsChoices
  /\ numdroppedactions = 0
  /\ objs = InitObjs
  /\ call = NoCall
  /\ written = 0
  /\ accepted = <<>>
  /\ started = <<>>
  /\ run = NoRun
  /\ burst = [w0 |-> 0, d0 |-> 0]
  /\ buffer = <<>>
  /\ paused = FALSE
  /\ emitted = <<>>

\* the object the host binds after constructing the controller
FirstTargets == {"a"}

\* target(o), the first binding
Bind(o) ==
  /\ _target = NoTarget
  /\ target(o)
  /\ Note("other", "undefined")
  /\ run' = keepRun
  /\ UNCHANGED <<written, accepted, started, burst>>
  /\ noEvents

\* setMovementBounds(b)
SetMovementBounds(b) ==
  /\ setMovementBounds(b)
  /\ Note("other", "undefined")
  /\ run' = IF _action # NULL THEN [run EXCEPT !.rebounded = TRUE] ELSE NoRun
  /\ UNCHANGED <<written, accepted, started, burst>>
  /\ noEvents

\* write(c), c a fresh command object
Write(c) ==
  /\ written < MaxWrites
  /\ write([c EXCEPT !.id = written + 1])
  /\ Note("write", IF writeDrops THEN "false" ELSE "undefined")
  /\ written' = written + 1
  /\ accepted' = IF writeDrops THEN accepted ELSE Append(accepted, written + 1)
  /\ run' = keepRun
  /\ UNCHANGED <<started, burst>>
  /\ noEvents

\* end(c), c a fresh command object, and end()
End(c) ==
  /\ written < MaxWrites
  /\ IF c # UNDEF
     THEN /\ end([c EXCEPT !.id = written + 1])
          /\ Note("end", "undefined")
          /\ written' = written + 1
          /\ accepted' = IF writeDrops THEN accepted
                         ELSE Append(accepted, written + 1)
     ELSE /\ end(c)
          /\ Note("other", "undefined")
          /\ UNCHANGED <<written, accepted>>
  /\ run' = keepRun
  /\ UNCHANGED <<started, burst>>
  /\ noEvents

\* tick(dt)
Tick(dt) ==
  /\ tick(dt)
  /\ IF _target = NoTarget
     THEN /\ Note("tick", "undefined")
          /\ run' = NoRun
          /\ UNCHANGED started
     ELSE \E r \in {tickBound(dt)}, s \in {setupAction(objs[_target])} :
            tickHistory(dt, r, s, setupStarts(objs[_target]),
                        setupStarts(objs[_target]) \/ _action # NULL)
  /\ burst' = IF _action_queue' = <<>>
              THEN [w0 |-> written, d0 |-> numdroppedactions]
              ELSE NULL
  /\ UNCHANGED <<written, accepted>>
  /\ noEvents

\* reset()
Reset ==
  /\ reset
  /\ call' = [NoCall EXCEPT !.name = "reset", !.ended = (_action # NULL)]
  /\ run' = NoRun
  /\ burst' = [w0 |-> written, d0 |-> numdroppedactions]
  /\ accepted' = <<>>
  /\ started' = <<>>
  /\ UNCHANGED written
  /\ noEvents

\* the host's physics on the controlled object: ground contact found or lost,
\* the object set moving
HostPhysics(resting) ==
  /\ _target # NoTarget
  /\ objs' = [objs EXCEPT ![_target].resting_y = resting,
                          ![_target].velocity = 1, ![_target].acceleration = 1]
  /\ Note("other", "undefined")
  /\ run' = keepRun
  /\ UNCHANGED <<_target, _action, _action_queue, bounds, numdroppedactions,
                 written, accepted, started, burst>>
  /\ noEvents

\* the items a host puts into the public buffer of the stream
Items == {[k |-> "object", v |-> 1], [k |-> "object", v |-> 2]}

\* the host pushes an item onto this.buffer
HostPush(item) ==
  /\ Len(buffer) < MaxBuffer
  /\ buffer' = Append(buffer, item)
  /\ emitted' = <<>>
  /\ Note("other", "undefined")
  /\ run' = keepRun
  /\ UNCHANGED <<ctl, written, accepted, started, burst, paused>>

\* resume(), the 'data' listener calling pause() at the k-th item
Resume(k) ==
  /\ channelAssigns(resume(k))
  /\ Note("resume", "this")
  /\ run' = keepRun
  /\ UNCHANGED <<ctl, written, accepted, started, burst>>

\* pause()
Pause ==
  /\ channelAssigns(pause)
  /\ Note("pause", IF paused THEN "undefined" ELSE "this")
  /\ run' = keepRun
  /\ UNCHANGED <<ctl, written, accepted, started, burst>>

\* emitUpdate()
EmitUpdate ==
  /\ channelAssigns(emitUpdate)
  /\ Note("emitUpdate", emitUpdate.ret)
  /\ run' = keepRun
  /\ UNCHANGED <<ctl, written, accepted, started, burst>>

\* target(o) at any time: the host hands the controller another object
Target(o) ==
  /\ target(o)
  /\ Note("target", o)
  /\ run' = keepRun
  /\ UNCHANGED <<written, accepted, started, burst>>
  /\ noEvents

\* tick(0), at most MaxSteps ticks being given to one action
TickZero ==
  /\ _action # NULL => Len(run.dts) < MaxSteps
  /\ Tick(0)

Next ==
  \/ \E o \in FirstTargets : Bind(o)
  \/ \E b \in BoundsChoices : SetMovementBounds([k |-> "object", v |-> b])
  \/ SetMovementBounds(UNDEF)
  \/ \E c \in Commands : Write(c)
  \/ \E c \in Commands \cup {UNDEF} : End(c)
  \/ \E dt \in Dts : Tick(dt)
  \/ Reset
  \/ \E r \in BOOLEAN : HostPhysics(r)

Spec == Init /\ [][Next]_vars

\* the controller with its output channel in use: the host fills the buffer,
\* pauses and resumes the stream and asks for status updates
InitChannel == Init /\ bounds = NoBounds

NextChannel ==
  \/ \E o \in FirstTargets : Bind(o)
  \/ \E c \in {CmdForward, CmdRotate} : Write(c)
  \/ \E dt \in Dts : Tick(dt)
  \/ \E item \in Items : HostPush(item)
  \/ \E k \in 0..MaxBuffer : Resume(k)
  \/ Pause
  \/ EmitUpdate

SpecChannel == InitChannel /\ [][NextChannel]_vars

\* the controller handed from one object to another while it runs
NextRebind ==
  \/ \E o \in Objects : Target(o)
  \/ \E c \in {CmdForward, CmdRotate} : Write(c)
  \/ \E dt \in Dts : Tick(dt)
  \/ Reset

SpecRebind == InitChannel /\ [][NextRebind]_vars

\* the controller given conflicting commands, durations of 0 and steps of 0
NextInputs ==
  \/ \E o \in FirstTargets : Bind(o)
  \/ \E c \in Conflicts : Write(c)
  \/ \E dt \in Dts : Tick(dt)
  \/ TickZero

SpecInputs == InitChannel /\ [][NextInputs]_vars

\* the controller of a grounded target whose host goes on calling tick with
\* dt > 0 and never calls reset
NextLive ==
  \/ \E o \in FirstTargets : Bind(o)
  \/ \E c \in {CmdForward, CmdRotate} : Write(c)
  \/ \E dt \in Dts : Tick(dt)

\* the host goes on calling tick with dt > 0: weak fairness of the tick step
SpecLive ==
  InitChannel /\ [][NextLive]_vars /\ WF_vars(\E dt \in Dts : Tick(dt))

-----------------------------------------------------------------------------
(* Properties *)

RECURSIVE Sum(_)
Sum(q) == IF q = <<>> THEN 0 ELSE Head(q) + Sum(Tail(q))

Min(a, b) == IF a < b THEN a ELSE b
Max(a, b) == IF a > b THEN a ELSE b

\* the controlled object
tgt == objs[_target]

\* every quotient the running action forms with a step of Dts is whole
WholeQuotients ==
  _action # NULL =>
    \A dt \in Dts :
      _action._elapsed + dt < _action.duration.v =>
        /\ \A m \in {_action._moverel_z.v, _action._moverel_x.v,
                     _action.translateZ.v, _action.translateX.v,
                     _action.rotate.v} :
             (m * dt) % _action.duration.v = 0
        /\ (_action.height.v * (2 * (_action._elapsed + dt) - _action.duration.v)
              * (2 * (_action._elapsed + dt) - _action.duration.v))
             % (_action.duration.v * _action.duration.v) = 0

\* the shape of the controller's state
TypeOK ==
  /\ _target \in Objects \cup {NoTarget}
  /\ _action # NULL => _target # NoTarget
  /\ Len(_action_queue) <= MaxActions + 1
  /\ written <= MaxWrites

\* C1: once the steps given to an action since its activation sum to at
\* least its duration, the current-action slot is empty, the target's
\* position is the action's _endpos and its rotation.y is _endrotate.
ExactTermination ==
  (run # NoRun /\ Sum(run.dts) >= run.action.duration.v) =>
    /\ _action = NULL
    /\ tgt.position = run.action._endpos
    /\ tgt.rotation_y = run.action._endrotate

\* the part of C1 the program keeps: the slot is empty and rotation.y is
\* _endrotate, and the position is the one setPosition leaves
TerminationAsCoded ==
  (run # NoRun /\ Sum(run.dts) >= run.action.duration.v) =>
    /\ _action = NULL
    /\ run.done
    /\ tgt.rotation_y = run.action._endrotate

\* {forward: 2, duration: 1000} from the origin, tick(500) and tick(500)
EndToEndReached ==
  /\ run # NoRun
  /\ run.dts = <<500, 500>>
  /\ run.startpos = Vec(0, 0, 0)
  /\ run.action._endpos = Vec(0, 0, -2 * Unit)
  /\ bounds = NoBounds
  /\ tgt.position = Vec(0, DefaultHeight, -Unit)

\* C2: the target's gravity is absent exactly when an action is current, and
\* a call that started an action, completed it or cancelled it leaves the
\* target's velocity and acceleration zero.
GravityHandOff ==
  _target # NoTarget =>
    /\ tgt.gravity = IF _action # NULL THEN 0 ELSE 1
    /\ (call.started \/ call.ended) => tgt.velocity = 0 /\ tgt.acceleration = 0

\* a tick has completed an action of a target the host had set moving, and
\* gravity is back
GravityReturned ==
  /\ call.name = "tick" /\ call.ended /\ ~call.started
  /\ Len(run.dts) = 2
  /\ tgt.gravity = 1 /\ tgt.velocity = 0
  /\ _action = NULL

\* one step of the controller, for C3
OneActionStep ==
  /\ (_action' # NULL /\ (_action = NULL \/ _action.id # _action'.id)) =>
       /\ call'.name = "tick"
       /\ _action = NULL
       /\ _action_queue # <<>>
       /\ _action'.id = Head(_action_queue).id
       /\ _action_queue' = Tail(_action_queue)
  /\ (call'.name = "tick" /\ _action # NULL) =>
       /\ _action_queue' = _action_queue
       /\ _action' # NULL =>
            [_action' EXCEPT !._elapsed = 0] = [_action EXCEPT !._elapsed = 0]
  /\ (call'.name = "tick" /\ _action_queue' # _action_queue) =>
       /\ _action = NULL
       /\ _action_queue' = Tail(_action_queue)

\* C3: a command becomes current only in a tick that starts with no current
\* action, and it is the head of the queue; a tick that starts with an action
\* current leaves the queue as it is and the slot holding that action or
\* nothing.
OnlyOneActive == [][OneActionStep]_vars

\* a tick has gone on with the current action while a command waits
RanWhileQueued ==
  /\ call.name = "tick" /\ call.ran /\ ~call.started
  /\ _action_queue # <<>>

\* C4: since the last reset, the commands that became current followed by the
\* commands still queued are the commands write accepted, in the order it
\* accepted them.
InsertionOrder == started \o ids(_action_queue) = accepted

\* two commands have become current and a third waits
OrderReached ==
  /\ Len(started) = 2
  /\ Len(_action_queue) = 1
  /\ numdroppedactions = 0

AirborneStep ==
  /\ (/\ call'.name = "tick" /\ _target # NoTarget /\ _action = NULL
      /\ _action_queue # <<>> /\ ~tgt.resting_y) =>
       /\ UNCHANGED ctl
       /\ ~call'.started /\ call'.sp = NULL
  /\ (call'.started \/ (_action = NULL /\ _action' # NULL)) =>
       /\ call'.name = "tick"
       /\ tgt.resting_y

\* C6: a tick with no current action, a command queued and the target not
\* resting changes nothing of the controller or the target, and an action
\* starts only in a tick that finds the target resting.
AirborneHold == [][AirborneStep]_vars

\* a tick has left the head of the queue waiting because the target is in
\* the air
HeldInQueue ==
  /\ call.name = "tick" /\ ~call.started
  /\ _target # NoTarget /\ _action = NULL /\ _action_queue # <<>>
  /\ ~tgt.resting_y

\* one step of the controller, for C7
ResetStep ==
  call'.name = "reset" =>
    /\ _action_queue' = <<>>
    /\ _action' = NULL
    /\ UNCHANGED <<_target, bounds, numdroppedactions>>
    /\ IF _action # NULL
       THEN objs' = [objs EXCEPT ![_target].velocity = 0,
                                 ![_target].acceleration = 0,
                                 ![_target].gravity = @ + 1]
       ELSE objs' = objs

\* C7: reset empties the queue and the current-action slot and leaves the
\* target's position and rotation as they were; if an action was current the
\* target's velocity and acceleration are zeroed and gravity is reapplied,
\* otherwise nothing but the queue changes.
Cancellation == [][ResetStep]_vars

\* reset has cancelled an action in the middle of its arc, and the target is
\* where the last tick left it
CancelledMidway ==
  /\ call.name = "reset" /\ call.ended
  /\ tgt.position.y = DefaultHeight
  /\ tgt.gravity = 1
  /\ _action_queue = <<>>

Axes == {"x", "y", "z"}

\* the sides of an axis
lo(axis) == bounds["min" \o axis]
hi(axis) == bounds["max" \o axis]

\* v is within the configured sides of the axis
Inside(v, axis) ==
  /\ lo(axis).k = "number" => v >= lo(axis).v
  /\ hi(axis).k = "number" => v <= hi(axis).v

\* C8: at the return of a tick in which an action was running or completed,
\* the target's position lies within the configured minimum and maximum of
\* each axis, and an axis whose tested value was inside its bounds keeps the
\* value it had.
BoundsClamp ==
  (call.name = "tick" /\ call.sp # NULL) =>
    \A axis \in Axes :
      /\ Inside(tgt.position[axis], axis)
      /\ Inside(call.sp.tested[axis], axis) =>
           tgt.position[axis] = call.sp.before[axis]

\* with only maxx = 5 configured, translateX: 7 from the origin ends at x = 5
ClampedAtMaxX ==
  /\ call.name = "tick" /\ call.ended
  /\ bounds = MaxXBounds
  /\ run.action._endpos.x = 7 * Unit
  /\ tgt.position.x = 5 * Unit
  /\ call.sp.clamped = {"maxx"}

\* C9: no tick assigns a coordinate of the target because of a side of the
\* bounds that is null or absent.
UnboundedNeverClamped ==
  (call.name = "tick" /\ call.sp # NULL) =>
    \A s \in call.sp.clamped : bounds[s].k = "number"

\* the part of C9 the program keeps: an absent side never assigns
AbsentNeverClamped ==
  (call.name = "tick" /\ call.sp # NULL) =>
    \A s \in call.sp.clamped : bounds[s].k # "undefined"

\* what a single tick of the action's whole duration leaves of the target,
\* from the state the action was started in
OneShot ==
  completeAction(run.action,
                 [tgt EXCEPT !.position = run.startpos,
                             !.rotation_y = run.startrotate]).obj

\* the run was N equal steps that sum to the duration, the bounds untouched
EqualSteps ==
  /\ run # NoRun
  /\ run.done
  /\ ~run.rebounded
  /\ \A i \in 1..Len(run.dts) : run.dts[i] = run.dts[1]
  /\ Sum(run.dts) = run.action.duration.v

\* C10: an action driven to completion by N equal steps leaves the target
\* with the position and rotation.y that a single tick of the whole duration
\* leaves.
FrameRateIndependence ==
  EqualSteps =>
    /\ tgt.position = OneShot.position
    /\ tgt.rotation_y = OneShot.rotation_y

\* the part of C10 the program keeps: rotation.y
FrameRateIndependentYaw ==
  EqualSteps => tgt.rotation_y = OneShot.rotation_y

\* a run of three equal steps
ThreeEqualSteps == EqualSteps /\ Len(run.dts) = 3

\* the 'data' events among ev, and the number of events of one kind
dataOf(ev) == SelectSeq(ev, LAMBDA x : x.e = "data")
count(ev, kind) == Len(SelectSeq(ev, LAMBDA x : x.e = kind))

\* the values of the first n entries of a sequence of items or events
values(q, n) == [i \in 1..n |-> q[i].v]

\* one call of resume, n being the number of 'data' events it emitted
ResumeDelivers(n) ==
  /\ n <= Len(buffer)
  /\ values(dataOf(emitted'), n) = values(buffer, n)
  /\ buffer' = SubSeq(buffer, n + 1, Len(buffer))
  /\ \A i, j \in 1..Len(emitted') :
       (emitted'[i].e = "pause" /\ i < j) => emitted'[j].e \notin {"data", "drain"}
  /\ paused' = (count(emitted', "pause") > 0)
  /\ count(emitted', "drain") = IF paused' THEN 0 ELSE 1
  /\ ~paused' => (buffer' = <<>> /\ emitted'[Len(emitted')] = DrainEvent)

\* one step of the output channel, for C13
ChannelStep ==
  /\ call'.name = "resume" => ResumeDelivers(Len(dataOf(emitted')))
  /\ call'.name = "pause" =>
       /\ paused'
       /\ buffer' = buffer
       /\ emitted' = IF paused THEN <<>> ELSE <<PauseEvent>>
  /\ call'.name # "resume" => dataOf(emitted') = <<>>

\* C13: resume emits the buffered items as 'data' events in the order they
\* were buffered, emits nothing more once a listener has called pause, leaves
\* the flag clear and emits 'drain' last, once, exactly when no listener
\* paused (and then the buffer is empty); pause sets the flag and emits one
\* 'pause' when the flag was clear; no other call emits 'data'.
BackPressure == [][ChannelStep]_vars

\* resume delivered the first of two buffered items and was paused by the
\* listener: the second item waits, and no 'drain' was emitted
PausedDuringDrain ==
  /\ call.name = "resume"
  /\ emitted = <<[e |-> "data", v |-> 2], PauseEvent>>
  /\ buffer = <<[k |-> "object", v |-> 1]>>
  /\ paused

\* C14: after emitUpdate with an action current, the call has returned the
\* controller (no error) and the snapshot of the action is the last item
\* buffered if the channel is paused, the last 'data' event emitted if not.
StatusEmission ==
  (call.name = "emitUpdate" /\ _action # NULL) =>
    /\ call.ret = "this"
    /\ IF paused
       THEN buffer # <<>> /\ buffer[Len(buffer)].v = _action.id
       ELSE /\ buffer = <<>>
            /\ emitted # <<>>
            /\ emitted[Len(emitted)] = [e |-> "data", v |-> _action.id]

\* what the program does instead: emitUpdate throws and delivers nothing
EmitUpdateThrows ==
  call.name = "emitUpdate" =>
    call.ret = "TypeError" /\ emitted = <<>>

\* emitUpdate was called while an action was running
EmitWhileRunning ==
  call.name = "emitUpdate" /\ _action # NULL /\ ~paused

\* one step of the controller, for C15
UnboundStep ==
  /\ (call'.name = "tick" /\ _target = NoTarget) =>
       /\ UNCHANGED <<ctl, buffer, paused>>
       /\ ~call'.started /\ call'.sp = NULL /\ emitted' = <<>>
  /\ _target' = NoTarget =>
       (_action' = NULL /\ started' = <<>> /\ ids(_action_queue') = accepted')

\* C15: a tick with no target bound leaves the queue, the current-action
\* slot, the bounds, the objects, the output buffer and the paused flag as
\* they were; while no target is bound no command has become current and the
\* queue holds every command accepted.
UnboundNoOp == [][UnboundStep]_vars

\* a tick was made with no target bound while a command waited, an item was
\* buffered and the channel was paused
TickedUnbound ==
  /\ call.name = "tick" /\ _target = NoTarget
  /\ _action_queue # <<>> /\ buffer # <<>> /\ paused

\* C18: whenever no action is current, every object is subject to gravity
\* once, as it was before the controller acted on it: the gravity an
\* activation removed from an object has been reapplied to that object.
GravityRestored ==
  _action = NULL => \A o \in Objects : objs[o].gravity = 1

\* what the program does instead: teardownAction reapplies gravity to the
\* object bound when the action ends, so the count over all objects is kept
GravityConserved ==
  objs["a"].gravity + objs["b"].gravity = IF _action = NULL THEN 2 ELSE 1

\* the action was started on a and ended with b bound: a is left without
\* gravity and b is subject to it twice
GravityMisplaced ==
  /\ _action = NULL
  /\ objs["a"].gravity = 0
  /\ objs["b"].gravity = 2

\* no side of the bounds box is configured for the y axis
yFree == bounds.miny.k = "undefined" /\ bounds.maxy.k = "undefined"

\* C11: with no y bound configured, the target's y after a tick that leaves
\* the action running is the arc's value at the sum of the steps given so
\* far, whatever the steps were: the start height at elapsed 0, the start
\* height plus the action's height at half the duration; after the tick that
\* completes the action it is the start height.
VerticalArc ==
  (call.name = "tick" /\ run # NoRun /\ yFree) =>
    /\ call.ran =>
         tgt.position.y =
           run.action.height.v + run.startpos.y
             - (run.action.height.v
                  * (2 * Sum(run.dts) - run.action.duration.v)
                  * (2 * Sum(run.dts) - run.action.duration.v))
               \div (run.action.duration.v * run.action.duration.v)
    /\ (call.ran /\ Sum(run.dts) = 0) => tgt.position.y = run.startpos.y
    /\ (call.ran /\ 2 * Sum(run.dts) = run.action.duration.v) =>
         tgt.position.y = run.action.height.v + run.startpos.y
    /\ run.done => tgt.position.y = run.startpos.y

\* the part of C11 the program keeps: the y of a running action
ArcWhileRunning ==
  (call.name = "tick" /\ run # NoRun /\ yFree /\ call.ran) =>
    /\ tgt.position.y =
         run.action.height.v + run.startpos.y
           - (run.action.height.v
                * (2 * Sum(run.dts) - run.action.duration.v)
                * (2 * Sum(run.dts) - run.action.duration.v))
             \div (run.action.duration.v * run.action.duration.v)
    /\ Sum(run.dts) = 0 => tgt.position.y = run.startpos.y
    /\ 2 * Sum(run.dts) = run.action.duration.v =>
         tgt.position.y = run.action.height.v + run.startpos.y

\* an action started above the ground is at its apex after steps of 0, 500, 0
ApexReached ==
  /\ call.name = "tick" /\ call.ran
  /\ run.dts = <<0, 500, 0>>
  /\ run.startpos.y = DefaultHeight
  /\ tgt.position.y = 2 * DefaultHeight

\* the command asks for an absolute movement
absolute(c) == Truthy(c.translateX) \/ Truthy(c.translateZ) \/ Truthy(c.moveto)

\* the action moves only by its absolute translation
OnlyAbsolute(r) ==
  /\ ~relative(r.action)
  /\ r.action._moverel_x.v = 0
  /\ r.action._moverel_z.v = 0
  /\ r.action._endpos =
       [r.startpos EXCEPT !.x = @ + r.action._moveabs_x.v,
                          !.z = @ + r.action._moveabs_z.v]

\* C12: an action made from a command that had an absolute intent
\* (translateX, translateZ or moveto) together with a relative one (forward,
\* backward, left or right) has no relative intent left, and its _endpos is
\* its start position moved by the absolute translation alone.
AbsoluteOverRelative ==
  (run # NoRun /\ absolute(run.command) /\ relative(run.command)) =>
    OnlyAbsolute(run)

\* the part of C12 the program keeps: translateX or moveto over a relative
\* intent
AbsoluteWinsAsCoded ==
  (/\ run # NoRun
   /\ Truthy(run.command.translateX) \/ Truthy(run.command.moveto)
   /\ relative(run.command)) =>
    OnlyAbsolute(run)

\* {moveto, backward} has run: the action goes to the moveto point only
MovetoWon ==
  /\ run # NoRun
  /\ Truthy(run.command.moveto) /\ Truthy(run.command.backward)
  /\ run.startpos = Vec(0, 0, 0)
  /\ run.action._endpos = Vec(4 * Unit, 0, -4 * Unit)

\* one step of the controller, for C16
ElapsedStep ==
  /\ _action' # NULL =>
       /\ 0 <= _action'._elapsed
       /\ _action'._elapsed < _action'.duration.v
       /\ _action'._elapsed = Sum(run'.dts)
  /\ (_action # NULL /\ _action' # NULL /\ call'.name # "tick") =>
       _action'._elapsed = _action._elapsed

\* C16: an action that is current has 0 <= _elapsed < duration, and _elapsed
\* is the sum of the steps of the ticks made since it became current; a call
\* that is not a tick leaves _elapsed as it is.
ElapsedBelowDuration == [][ElapsedStep]_vars

\* an action has been given the steps 0, 500 and 0 and is still current
ZeroStepsCounted ==
  /\ call.name = "tick" /\ _action # NULL
  /\ run.dts = <<0, 500, 0>>
  /\ _action._elapsed = 500

\* C17: an action made from a command whose duration is not set or is 0 has
\* the duration 1000, and no action that is or was current has duration 0.
DurationDefaulted ==
  /\ run # NoRun =>
       /\ (run.command.duration.k = "undefined" \/ run.command.duration = Num(0))
            => run.action.duration = Num(DefaultDuration)
       /\ run.action.duration.v # 0
  /\ _action # NULL => _action.duration.v # 0

\* a command written with duration 0 is running in its second tick
ZeroDurationRan ==
  /\ run # NoRun
  /\ run.command.duration = Num(0)
  /\ call.name = "tick" /\ call.ran
  /\ run.dts = <<500, 0>>

\* one step of the controller, for C20
NoCarryStep ==
  call'.name = "tick" =>
    /\ _action_queue' # _action_queue =>
         /\ call'.started
         /\ _action_queue # <<>>
         /\ _action_queue' = Tail(_action_queue)
    /\ _action # NULL =>
         /\ _action_queue' = _action_queue
         /\ ~call'.started
         /\ _action' # NULL => _action'.id = _action.id
    /\ call'.started =>
         /\ Len(run'.dts) = 1
         /\ _action' # NULL => _action'._elapsed = run'.dts[1]

\* C20: a tick takes at most one command from the queue; a tick that starts
\* with an action current takes none and leaves the slot empty or holding
\* that action; an action that a tick starts has, at the return of that tick,
\* _elapsed equal to that tick's dt alone.
NoCarryOver == [][NoCarryStep]_vars

\* a tick has completed an action with dt in excess of what was left of its
\* duration, and the next command still waits
ExcessDropped ==
  /\ call.name = "tick" /\ call.ended /\ ~call.started
  /\ Sum(run.dts) > run.action.duration.v
  /\ _action = NULL
  /\ _action_queue # <<>>

\* write has put the command with this id into the queue
Accepted(i) == \E j \in 1..Len(accepted) : accepted[j] = i

\* the command with this id has been the current action and is so no longer
Completed(i) ==
  /\ \E j \in 1..Len(started) : started[j] = i
  /\ _action = NULL \/ _action.id # i

\* C19: with a grounded target bound and the host going on calling tick with
\* dt > 0, every command write has accepted is eventually made the current
\* action and completed, and the queue and the current-action slot are
\* eventually both empty.
Progress ==
  /\ \A i \in 1..MaxWrites :
       (_target # NoTarget /\ Accepted(i)) ~> Completed(i)
  /\ (_target # NoTarget) ~> (_action_queue = <<>> /\ _action = NULL)

\* three commands were accepted and each has run to completion
AllCompleted ==
  /\ Len(accepted) = 3
  /\ \A i \in 1..3 : Accepted(i) /\ Completed(i)
  /\ _action_queue = <<>>
  /\ _action = NULL

====
